---- MODULE Spec2Model ----
(***************************************************************************)
(* A model of pytesserae/score.py: the Tesserae score (vanilla), the        *)
(* selection of the two lowest-frequency matching terms (_get_two_lowest), *)
(* the position index (_get_indices) and the distance between matching     *)
(* terms in a chunk (find_distance).                                        *)
(*                                                                          *)
(* The functions are pure.  Each specification below draws the arguments    *)
(* of one function from bounded sets in its Init and has one action per     *)
(* call of the function.  A Python set has no iteration order of its own:   *)
(* tuple(matching_terms) and "for t in matching_terms" are modelled by a    *)
(* permutation of the set that every call chooses anew.  A raised exception *)
(* is an outcome [kind |-> <exception name>]; a returned value is           *)
(* [kind |-> "return", val |-> <value>].                                    *)
(***************************************************************************)
EXTENDS Integers, Sequences, FiniteSets, TLC

VARIABLES
    matching_terms,   \* the set of matching words of the call
    chunk,            \* find_distance: the chunk, a sequence of tokens
    counts,           \* find_distance, _get_two_lowest: word -> count
    source_counts,    \* vanilla: word -> count of the source text
    target_counts,    \* vanilla: word -> count of the target text
    source_distance,  \* vanilla: distance in the source chunk
    target_distance,  \* vanilla: distance in the target chunk
    op,               \* the function called last ("none" before any call)
    order,            \* the iteration order of matching_terms in that call
    ret               \* the outcome of that call

vars == <<matching_terms, chunk, counts, source_counts, target_counts,
          source_distance, target_distance, op, order, ret>>

----------------------------------------------------------------------------
(* Bounds of the model. *)

\* longest chunk
MaxChunk == 4
\* largest count in a counts table of find_distance and of vanilla
MaxCount == 3
\* largest count in the counts table of _get_two_lowest
MaxTermCount == 4
\* largest count in a counts table of vanilla in float arithmetic
MaxFloatCount == 2
\* largest distance handed to vanilla
MaxDist == 2

\* the words a chunk is made of
Tokens == {"a", "b", "c"}
\* the words _get_two_lowest chooses among
Terms == Tokens \cup {"d"}

----------------------------------------------------------------------------
(* Python values. *)

Return(v) == [kind |-> "return", val |-> v]

Raise(exc) == [kind |-> exc]

\* the outcome of the calls before the first call
NoCall == [kind |-> "none"]

\* the orders in which a set can be iterated: tuple(s), for x in s
IterationOrders(S) ==
    {s \in [1..Cardinality(S) -> S] : \A i, j \in DOMAIN s : s[i] = s[j] => i = j}

\* a dict with keys among K and values among V
Dicts(K, V) == UNION {[D -> V] : D \in SUBSET K}

abs(n) == IF n < 0 THEN -n ELSE n

----------------------------------------------------------------------------
(* _get_two_lowest, score.py lines 46-72.  lowest and next_lowest are the   *)
(* (term, count) tuples of the code.                                        *)

\* lines 65-71: the for loop over match_tuple[2:], from the i-th element on
RECURSIVE two_lowest_loop_no_elif(_, _, _, _, _)
two_lowest_loop_no_elif(match_tuple, cnts, i, lowest, next_lowest) ==
    IF i > Len(match_tuple) THEN Return(<<lowest[1], next_lowest[1]>>)
    ELSE LET term == match_tuple[i] IN
         IF term \notin DOMAIN cnts THEN Raise("KeyError")
         ELSE LET term_count == cnts[term] IN
              IF term_count < lowest[2]
              THEN two_lowest_loop_no_elif(match_tuple, cnts, i + 1,
                                           <<term, term_count>>, lowest)
              ELSE two_lowest_loop_no_elif(match_tuple, cnts, i + 1,
                                           lowest, next_lowest)

RECURSIVE two_lowest_loop(_, _, _, _, _)
two_lowest_loop(match_tuple, cnts, i, lowest, next_lowest) ==
    IF i > Len(match_tuple) THEN Return(<<lowest[1], next_lowest[1]>>)
    ELSE LET term == match_tuple[i] IN
         IF term \notin DOMAIN cnts THEN Raise("KeyError")
         ELSE LET term_count == cnts[term] IN
              IF term_count < lowest[2]
              THEN two_lowest_loop(match_tuple, cnts, i + 1,
                                   <<term, term_count>>, lowest)
              ELSE IF term_count < next_lowest[2]
              THEN two_lowest_loop(match_tuple, cnts, i + 1,
                                   lowest, <<term, term_count>>)
              ELSE two_lowest_loop(match_tuple, cnts, i + 1,
                                   lowest, next_lowest)

\* lines 61-64 with >= for >: a tie between the first two elements swaps them
first_two_swap_on_tie(lowest, next_lowest) ==
    IF lowest[2] >= next_lowest[2] THEN <<next_lowest, lowest>>
    ELSE <<lowest, next_lowest>>

\* lines 61-64: the first two elements in the order of their counts
first_two(lowest, next_lowest) ==
    IF lowest[2] > next_lowest[2] THEN <<next_lowest, lowest>>
    ELSE <<lowest, next_lowest>>

\* lines 57-72; match_tuple is tuple(matching_terms), 1-based here
_get_two_lowest(match_tuple, cnts) ==
    IF Len(match_tuple) < 1 THEN Raise("IndexError")
    ELSE IF match_tuple[1] \notin DOMAIN cnts THEN Raise("KeyError")
    ELSE IF Len(match_tuple) < 2 THEN Raise("IndexError")
    ELSE IF match_tuple[2] \notin DOMAIN cnts THEN Raise("KeyError")
    ELSE LET ft == first_two(<<match_tuple[1], cnts[match_tuple[1]]>>,
                             <<match_tuple[2], cnts[match_tuple[2]]>>)
         IN two_lowest_loop(match_tuple, cnts, 3, ft[1], ft[2])

----------------------------------------------------------------------------
(* _get_indices, score.py lines 75-81.  Python indices start at 0: the      *)
(* token chunk[i] of the model is at index i - 1.                           *)

RECURSIVE indices_loop(_, _, _, _)
indices_loop(term, chnk, i, positions) ==
    IF i > Len(chnk) THEN positions
    ELSE indices_loop(term, chnk, i + 1,
                      IF chnk[i] = term THEN Append(positions, i - 1)
                      ELSE positions)

_get_indices(term, chnk) == indices_loop(term, chnk, 1, <<>>)

----------------------------------------------------------------------------
(* find_distance, score.py lines 84-121. *)

\* lines 107-108 with both sides of the zip taken from positions[:-1]
inter_position_diffs_same_slice(positions) ==
    [k \in 1..(IF Len(positions) = 0 THEN 0 ELSE Len(positions) - 1) |->
        positions[k] - positions[k]]

\* lines 107-108: [j - i for i, j in zip(positions[:-1], positions[1:])]
inter_position_diffs(positions) ==
    [k \in 1..(IF Len(positions) = 0 THEN 0 ELSE Len(positions) - 1) |->
        positions[k + 1] - positions[k]]

\* the built-in min of a list; ValueError on an empty one
RECURSIVE min_from(_, _, _)
min_from(xs, k, m) ==
    IF k > Len(xs) THEN m
    ELSE min_from(xs, k + 1, IF xs[k] < m THEN xs[k] ELSE m)

\* min(xs, default=0): no error on an empty list
min_default_zero(xs) == IF Len(xs) = 0 THEN Return(0)
                        ELSE Return(min_from(xs, 2, xs[1]))

\* line 109: min(inter_position_diffs)
min(xs) == IF Len(xs) = 0 THEN Raise("ValueError")
           ELSE Return(min_from(xs, 2, xs[1]))

\* lines 115-120 without the loops: the distance of the first positions
min_dist_loop_first_only(p1s, p2s, i, j, min_dist) == min_dist

\* lines 116-120: the two nested loops, from the pair (p1s[i], p2s[j]) on
RECURSIVE min_dist_loop(_, _, _, _, _)
min_dist_loop(p1s, p2s, i, j, min_dist) ==
    IF i > Len(p1s) THEN min_dist
    ELSE IF j > Len(p2s) THEN min_dist_loop(p1s, p2s, i + 1, 1, min_dist)
    ELSE LET cur_dist == abs(p2s[j] - p1s[i]) IN
         min_dist_loop(p1s, p2s, i, j + 1,
                       IF cur_dist < min_dist THEN cur_dist ELSE min_dist)

\* lines 102-109 with max for min: the single-term path
single_term_distance_max(term, chnk) ==
    LET diffs == inter_position_diffs(_get_indices(term, chnk)) IN
    IF Len(diffs) = 0 THEN Raise("ValueError")
    ELSE Return(CHOOSE d \in {diffs[k] : k \in DOMAIN diffs} :
                    \A k \in DOMAIN diffs : diffs[k] <= d)

\* lines 104-109: the single-term path
single_term_distance(term, chnk) ==
    min(inter_position_diffs(_get_indices(term, chnk)))

\* lines 111-121: the path of two or more (or no) matching terms
two_term_distance(match_tuple, chnk, cnts) ==
    LET two == _get_two_lowest(match_tuple, cnts) IN
    IF two.kind # "return" THEN two
    ELSE LET term1_positions == _get_indices(two.val[1], chnk)
             term2_positions == _get_indices(two.val[2], chnk)
         IN IF Len(term1_positions) = 0 \/ Len(term2_positions) = 0
            THEN Raise("IndexError")
            ELSE Return(min_dist_loop(term1_positions, term2_positions, 1, 1,
                            abs(term1_positions[1] - term2_positions[1])))

\* lines 102-121; match_tuple is the iteration order of matching_terms
find_distance(match_tuple, chnk, cnts) ==
    IF Len(match_tuple) = 1
    THEN single_term_distance(match_tuple[1], chnk)
    ELSE two_term_distance(match_tuple, chnk, cnts)

----------------------------------------------------------------------------
(* The calls of _get_two_lowest. *)

InitSelect ==
    /\ matching_terms \in SUBSET Terms
    /\ counts \in Dicts(Terms, 1..MaxTermCount)
    /\ chunk = <<>>
    /\ source_counts = <<>> /\ target_counts = <<>>
    /\ source_distance = 0 /\ target_distance = 0
    /\ op = "none" /\ order = <<>> /\ ret = NoCall

Call_get_two_lowest ==
    /\ \E o \in IterationOrders(matching_terms) :
          /\ order' = o
          /\ ret' = _get_two_lowest(o, counts)
    /\ op' = "_get_two_lowest"
    /\ UNCHANGED <<matching_terms, chunk, counts, source_counts,
                   target_counts, source_distance, target_distance>>

NextSelect == Call_get_two_lowest

SpecSelect == InitSelect /\ [][NextSelect]_vars

----------------------------------------------------------------------------
(* The calls of find_distance. *)

Chunks == UNION {[1..n -> Tokens] : n \in 0..MaxChunk}

InitDist ==
    /\ matching_terms \in SUBSET Tokens
    /\ chunk \in Chunks
    /\ counts \in Dicts(Tokens, 1..MaxCount)
    /\ source_counts = <<>> /\ target_counts = <<>>
    /\ source_distance = 0 /\ target_distance = 0
    /\ op = "none" /\ order = <<>> /\ ret = NoCall

Call_find_distance ==
    /\ \E o \in IterationOrders(matching_terms) :
          /\ order' = o
          /\ ret' = find_distance(o, chunk, counts)
    /\ op' = "find_distance"
    /\ UNCHANGED <<matching_terms, chunk, counts, source_counts,
                   target_counts, source_distance, target_distance>>

NextDist == Call_find_distance

SpecDist == InitDist /\ [][NextDist]_vars

----------------------------------------------------------------------------
(* Python numbers in real arithmetic.  A number is a fraction <<n, d>> in   *)
(* lowest terms with d > 0; <<1, 0>> stands for the float inf.  An int k is *)
(* <<k, 1>>.                                                                *)

RECURSIVE GCD(_, _)
GCD(x, y) == IF y = 0 THEN x ELSE GCD(y, x % y)

Frac(n, d) ==
    LET g == GCD(abs(n), abs(d))
        sg == IF d < 0 THEN -1 ELSE 1
    IN <<sg * (n \div g), sg * (d \div g)>>

FromInt(k) == <<k, 1>>

\* x + y
add(x, y) == Frac(x[1] * y[2] + y[1] * x[2], x[2] * y[2])

\* x / y as numpy has it: inf for a division by zero
true_div_inf(x, y) ==
    IF y[1] = 0 THEN Return(<<1, 0>>)
    ELSE Return(Frac(x[1] * y[2], x[2] * y[1]))

\* x / y: ZeroDivisionError for y = 0
true_div(x, y) ==
    IF y[1] = 0 THEN Raise("ZeroDivisionError")
    ELSE Return(Frac(x[1] * y[2], x[2] * y[1]))

\* math.log(x): ValueError (math domain error) unless x > 0.  The returned
\* float is the natural logarithm of x, written [ln |-> x]: ln is strictly
\* increasing, so two scores compare as their arguments do.
log(x) == IF x[1] <= 0 THEN Raise("ValueError") ELSE Return([ln |-> x])

----------------------------------------------------------------------------
(* vanilla, score.py lines 5-43, in real arithmetic. *)

\* lines 36-37: sum([v for v in counts.values()])
RECURSIVE sum_values(_, _)
sum_values(table, keys) ==
    IF keys = {} THEN 0
    ELSE LET k == CHOOSE x \in keys : TRUE IN
         table[k] + sum_values(table, keys \ {k})

\* the term count/size without the reciprocal
recip_freq_not_inverted(count, size) == true_div(FromInt(count), FromInt(size))

\* lines 40-41: 1 / (counts[t]/size)
recip_freq(count, size) ==
    LET f == true_div(FromInt(count), FromInt(size)) IN
    IF f.kind # "return" THEN f ELSE true_div(FromInt(1), f.val)

\* lines 40-41: sum([1 / (counts[t]/size) for t in matching_terms]); the list
\* is built in the iteration order, from the i-th term on, acc is the sum of
\* the elements built so far
RECURSIVE sum_recip_freq(_, _, _, _, _)
sum_recip_freq(terms, table, size, i, acc) ==
    IF i > Len(terms) THEN Return(acc)
    ELSE IF terms[i] \notin DOMAIN table THEN Raise("KeyError")
    ELSE LET r == recip_freq(table[terms[i]], size) IN
         IF r.kind # "return" THEN r
         ELSE sum_recip_freq(terms, table, size, i + 1, add(acc, r.val))

\* lines 36-43; terms is the iteration order of matching_terms
vanilla(terms, s_distance, t_distance, s_counts, t_counts) ==
    LET target_size == sum_values(t_counts, DOMAIN t_counts)
        source_size == sum_values(s_counts, DOMAIN s_counts)
        target_sum == sum_recip_freq(terms, t_counts, target_size, 1, FromInt(0))
    IN IF target_sum.kind # "return" THEN target_sum
       ELSE LET source_sum ==
                    sum_recip_freq(terms, s_counts, source_size, 1, FromInt(0))
            IN IF source_sum.kind # "return" THEN source_sum
               ELSE LET raw == true_div(add(target_sum.val, source_sum.val),
                                        FromInt(t_distance + s_distance))
                    IN IF raw.kind # "return" THEN raw ELSE log(raw.val)

----------------------------------------------------------------------------
(* The calls of vanilla: a behaviour makes one. *)

\* the words of the two texts
Words == {"a", "b"}

\* the distances handed to vanilla; find_distance returns none below 1, but
\* vanilla takes any int
Distances == -1..MaxDist

InitScore ==
    /\ matching_terms \in SUBSET Words
    /\ source_counts \in Dicts(Words, 0..MaxCount)
    /\ target_counts \in Dicts(Words, 0..MaxCount)
    /\ source_distance = 0 /\ target_distance = 0
    /\ chunk = <<>> /\ counts = <<>>
    /\ op = "none" /\ order = <<>> /\ ret = NoCall

Call_vanilla ==
    /\ op = "none"
    /\ \E sd \in Distances, td \in Distances :
          /\ source_distance' = sd
          /\ target_distance' = td
          /\ \E o \in IterationOrders(matching_terms) :
                /\ order' = o
                /\ ret' = vanilla(o, sd, td, source_counts, target_counts)
    /\ op' = "vanilla"
    /\ UNCHANGED <<matching_terms, chunk, counts, source_counts, target_counts>>

NextScore == Call_vanilla

SpecScore == InitScore /\ [][NextScore]_vars

----------------------------------------------------------------------------
(* Python numbers as the interpreter holds them.  An int has any size: it   *)
(* is a pair of limbs <<hi, lo>> of value hi * 2^28 + lo, 0 <= lo < 2^28    *)
(* (the model stays below 2^58).  A float is an IEEE 754 binary64 number    *)
(* that is not negative: [m |-> mantissa, e |-> exponent] of value          *)
(* m * 2^e with 2^52 <= m < 2^53, m an int in limbs; 0.0 has m = 0.         *)
(* Every operation rounds to nearest, ties to even.  Overflow and subnormal *)
(* numbers are out of reach of the model's inputs.                          *)

Limb == 2^28

HalfLimb == 2^27

Byte == 2^8

\* the high limb of 2^52, the smallest mantissa of a float
MantissaMin == 2^24

\* the high limb of 2^53, above every mantissa of a float
MantissaMax == 2^25

l_norm(hi, lo) == <<hi + lo \div Limb, lo % Limb>>

l_add(x, y) == l_norm(x[1] + y[1], x[2] + y[2])

\* x - y for x >= y
l_sub(x, y) == IF x[2] >= y[2] THEN <<x[1] - y[1], x[2] - y[2]>>
               ELSE <<x[1] - y[1] - 1, x[2] + Limb - y[2]>>

l_less(x, y) == x[1] < y[1] \/ (x[1] = y[1] /\ x[2] < y[2])

l_double(x) == l_norm(2 * x[1], 2 * x[2])

l_half(x) == <<x[1] \div 2, (x[1] % 2) * HalfLimb + x[2] \div 2>>

l_odd(x) == x[2] % 2 = 1

\* the int k, 0 <= k < 2^28
l_int(k) == <<0, k>>

FloatZero == [m |-> <<0, 0>>, e |-> 0]

\* st.m * 2^st.e for 0 < st.m < 2^52: exact, the mantissa is shifted up, by
\* a limb, by a byte or by a bit
RECURSIVE scale_up(_)
scale_up(st) ==
    IF st.m[1] = 0
    THEN scale_up([m |-> <<st.m[2], 0>>, e |-> st.e - 28])
    ELSE IF st.m[1] < Byte * Byte
    THEN scale_up([m |-> <<st.m[1] * Byte + st.m[2] \div (Limb \div Byte),
                           (st.m[2] % (Limb \div Byte)) * Byte>>,
                   e |-> st.e - 8])
    ELSE IF st.m[1] < MantissaMin
    THEN scale_up([m |-> l_double(st.m), e |-> st.e - 1])
    ELSE st

\* st.m * 2^st.e for st.m >= 2^52, rounded to 53 bits; st.guard is the last
\* bit shifted out, st.sticky tells whether any bit below it was set
RECURSIVE scale_down(_)
scale_down(st) ==
    IF st.m[1] >= MantissaMax
    THEN scale_down([m |-> l_half(st.m), e |-> st.e + 1,
                     guard |-> l_odd(st.m), sticky |-> st.sticky \/ st.guard])
    ELSE IF st.guard /\ (st.sticky \/ l_odd(st.m))
    THEN LET w == l_add(st.m, l_int(1)) IN
         IF w[1] >= MantissaMax THEN [m |-> l_half(w), e |-> st.e + 1]
         ELSE [m |-> w, e |-> st.e]
    ELSE [m |-> st.m, e |-> st.e]

\* the float nearest to v * 2^e (plus a bit below, if sticky)
to_nearest(v, e, sticky) ==
    IF v = <<0, 0>> THEN FloatZero
    ELSE IF v[1] < MantissaMin THEN scale_up([m |-> v, e |-> e])
    ELSE scale_down([m |-> v, e |-> e, guard |-> FALSE, sticky |-> sticky])

\* the int operand of a float operation: the float nearest to the int
from_int(v) == to_nearest(v, 0, FALSE)

\* the int 1 as a float
FloatOne == from_int(l_int(1))

\* n more bits of the quotient of two mantissas: st.r is the remainder so
\* far (an int in limbs), st.q the bits so far (an int below 2^28)
RECURSIVE div_loop(_, _, _)
div_loop(st, d, n) ==
    IF n = 0 THEN st
    ELSE IF l_less(st.r, d)
    THEN div_loop([r |-> l_double(st.r), q |-> 2 * st.q], d, n - 1)
    ELSE div_loop([r |-> l_double(l_sub(st.r, d)), q |-> 2 * st.q + 1],
                  d, n - 1)

\* x / y on floats: 55 bits of the quotient of the mantissas, the first 27
\* and the next 28, rounded
f_div(x, y) ==
    IF y.m = <<0, 0>> THEN Raise("ZeroDivisionError")
    ELSE IF x.m = <<0, 0>> THEN Return(FloatZero)
    ELSE LET hi == div_loop([r |-> x.m, q |-> 0], y.m, 27)
             lo == div_loop([r |-> hi.r, q |-> 0], y.m, 28)
         IN Return(to_nearest(<<hi.q, lo.q>>, x.e - y.e - 54,
                              lo.r # <<0, 0>>))

\* st.v shifted down by s bits; st.sticky tells whether a set bit was
\* shifted out
RECURSIVE shr_sticky(_, _)
shr_sticky(st, s) ==
    IF s = 0 THEN st
    ELSE shr_sticky([v |-> l_half(st.v), sticky |-> st.sticky \/ l_odd(st.v)],
                    s - 1)

times8(v) == l_double(l_double(l_double(v)))

\* x + y on floats: the smaller operand is aligned with three bits to spare
f_add(x, y) ==
    IF x.m = <<0, 0>> THEN y
    ELSE IF y.m = <<0, 0>> THEN x
    ELSE LET big == IF x.e >= y.e THEN x ELSE y
             small == IF x.e >= y.e THEN y ELSE x
             s == big.e - small.e
         IN IF s > 55 THEN big
            ELSE LET lower == shr_sticky([v |-> times8(small.m),
                                          sticky |-> FALSE], s)
                 IN to_nearest(l_add(times8(big.m), lower.v), big.e - 3,
                               lower.sticky)

\* x < y on floats
f_less(x, y) ==
    IF y.m = <<0, 0>> THEN FALSE
    ELSE IF x.m = <<0, 0>> THEN TRUE
    ELSE x.e < y.e \/ (x.e = y.e /\ l_less(x.m, y.m))

\* math.log on a float: the float nearest to the logarithm, written
\* [ln |-> x]; ValueError for 0.0
f_log(x) == IF x.m = <<0, 0>> THEN Raise("ValueError") ELSE Return([ln |-> x])

----------------------------------------------------------------------------
(* vanilla, score.py lines 5-43, in the arithmetic of the interpreter. *)

\* lines 40-41: 1 / (counts[t]/size), an int/int division (exact operands
\* below 2^53) and an int/float division
recip_freq_binary64(count, size) ==
    LET f == f_div(from_int(l_int(count)), from_int(l_int(size))) IN
    IF f.kind # "return" THEN f ELSE f_div(FloatOne, f.val)

\* lines 40-41: sum([... for t in matching_terms]), summed in list order
RECURSIVE sum_recip_freq_binary64(_, _, _, _, _)
sum_recip_freq_binary64(terms, table, size, i, acc) ==
    IF i > Len(terms) THEN Return(acc)
    ELSE IF terms[i] \notin DOMAIN table THEN Raise("KeyError")
    ELSE LET r == recip_freq_binary64(table[terms[i]], size) IN
         IF r.kind # "return" THEN r
         ELSE sum_recip_freq_binary64(terms, table, size, i + 1,
                                      f_add(acc, r.val))

\* line 42 with the source distance left out
distance_sum_target_only(t_distance, s_distance) == t_distance

\* line 42: (target_distance + source_distance), an int
distance_sum(t_distance, s_distance) == l_add(t_distance, s_distance)

\* lines 36-37 and 40-41: the sizes of the texts and the sum of the two
\* sums; terms is the iteration order of matching_terms
weight_binary64(terms, s_counts, t_counts) ==
    LET target_size == sum_values(t_counts, DOMAIN t_counts)
        source_size == sum_values(s_counts, DOMAIN s_counts)
        target_sum ==
            sum_recip_freq_binary64(terms, t_counts, target_size, 1, FloatZero)
    IN IF target_sum.kind # "return" THEN target_sum
       ELSE LET source_sum == sum_recip_freq_binary64(terms, s_counts,
                                  source_size, 1, FloatZero)
            IN IF source_sum.kind # "return" THEN source_sum
               ELSE Return(f_add(target_sum.val, source_sum.val))

\* lines 38 and 42: math.log(weight / (target_distance + source_distance));
\* weight is the outcome of lines 36-41
score_binary64(weight, s_distance, t_distance) ==
    IF weight.kind # "return" THEN weight
    ELSE LET raw == f_div(weight.val,
                          from_int(distance_sum(t_distance, s_distance)))
         IN IF raw.kind # "return" THEN raw ELSE f_log(raw.val)

\* lines 36-43
vanilla_binary64(terms, s_distance, t_distance, s_counts, t_counts) ==
    score_binary64(weight_binary64(terms, s_counts, t_counts),
                   s_distance, t_distance)

----------------------------------------------------------------------------
(* The calls of vanilla in the arithmetic of the interpreter: a behaviour   *)
(* makes one.                                                               *)

\* the largest amount by which a distance exceeds 0, 2^31 or 2^53
MaxOffset == 1

\* the distances in the source chunk: small ones
SmallDistances == {l_int(k) : k \in 0..MaxOffset}

\* the distances in the target chunk: small ones, ones from 2^31 on and ones
\* from 2^53 on, where the 53 bits of a float end
BigDistances ==
    SmallDistances \cup {<<h, k>> : h \in {2^3, MantissaMax}, k \in 0..MaxOffset}

InitFloat ==
    /\ matching_terms \in SUBSET Words
    /\ source_counts \in [Words -> 1..MaxFloatCount]
    /\ target_counts \in [Words -> 1..MaxFloatCount]
    /\ source_distance = l_int(0) /\ target_distance = l_int(0)
    /\ chunk = <<>> /\ counts = <<>>
    /\ op = "none" /\ order = <<>> /\ ret = NoCall

Call_vanilla_binary64 ==
    /\ op = "none"
    /\ \E sd \in SmallDistances, td \in BigDistances :
          /\ source_distance' = sd
          /\ target_distance' = td
          /\ \E o \in IterationOrders(matching_terms) :
                /\ order' = o
                /\ ret' = vanilla_binary64(o, sd, td, source_counts,
                                           target_counts)
    /\ op' = "vanilla"
    /\ UNCHANGED <<matching_terms, chunk, counts, source_counts, target_counts>>

NextFloat == Call_vanilla_binary64

SpecFloat == InitFloat /\ [][NextFloat]_vars

----------------------------------------------------------------------------
(* What the claims speak of, stated on sets and not on the loops above. *)

\* the indices (from 0) at which term occurs in the chunk
Occ(term) == {i - 1 : i \in {k \in DOMAIN chunk : chunk[k] = term}}

SetMin(S) == CHOOSE m \in S : \A x \in S : m <= x

RECURSIVE SetSum(_)
SetSum(S) == IF S = {} THEN 0
             ELSE LET x == CHOOSE y \in S : TRUE IN x + SetSum(S \ {x})

\* |p1 - p2| for every position p1 of t1 and every position p2 of t2
CrossGaps(t1, t2) == {abs(p1 - p2) : p1 \in Occ(t1), p2 \in Occ(t2)}

\* q - p for every two occurrences p < q of term
PairGaps(term) == {q - p : <<p, q>> \in {pq \in Occ(term) \X Occ(term) : pq[1] < pq[2]}}

\* q - p for the occurrences p < q of term with no occurrence in between
AdjacentGaps(term) ==
    {pq[2] - pq[1] : pq \in {xy \in Occ(term) \X Occ(term) :
        /\ xy[1] < xy[2]
        /\ \A r \in Occ(term) : ~(xy[1] < r /\ r < xy[2])}}

\* the place of term t in the iteration order of the call
Place(t) == CHOOSE i \in DOMAIN order : order[i] = t

\* x and y are two distinct matching terms and no other one has a smaller count
TwoSmallest(x, y) ==
    /\ x \in matching_terms /\ y \in matching_terms /\ x # y
    /\ counts[x] <= counts[y]
    /\ \A z \in matching_terms \ {x, y} : counts[y] <= counts[z]

DistinctCounts ==
    \A s, t \in matching_terms : s # t => counts[s] # counts[t]

\* the one term of S with the smallest count, when the counts are distinct
Rarest(S) == CHOOSE t \in S : \A z \in S : counts[t] <= counts[z]

\* the first term, in the iteration order, among those of S with the smallest count
EarliestRarest(S) ==
    CHOOSE t \in S :
        /\ \A z \in S : counts[t] <= counts[z]
        /\ \A z \in S : counts[z] = counts[t] => Place(t) <= Place(z)

----------------------------------------------------------------------------
(* C1: with two or more matching terms, all of them keys of counts, and a   *)
(* chunk in which the two selected terms occur, find_distance returns the   *)
(* minimum of |p1 - p2| over all pairs of a position of term1 and a         *)
(* position of term2, where term1 and term2 are two matching terms with the *)
(* smallest counts in the counts table.                                     *)
C1_CrossProductMinimum ==
    (/\ op = "find_distance"
     /\ Cardinality(matching_terms) >= 2
     /\ matching_terms \subseteq DOMAIN counts)
    => LET sel == _get_two_lowest(order, counts) IN
       (Occ(sel.val[1]) # {} /\ Occ(sel.val[2]) # {})
       => /\ ret.kind = "return"
          /\ TwoSmallest(sel.val[1], sel.val[2])
          /\ ret.val = SetMin(CrossGaps(sel.val[1], sel.val[2]))

\* a call where the nearest pair is not the pair of the first positions and
\* the selected terms are not the first two of the iteration order
C1_Witness ==
    /\ op = "find_distance" /\ ret.kind = "return"
    /\ Cardinality(matching_terms) = 3
    /\ matching_terms \subseteq DOMAIN counts
    /\ LET sel == _get_two_lowest(order, counts) IN
       /\ sel.val # <<order[1], order[2]>>
       /\ sel.val # <<order[2], order[1]>>
       /\ Cardinality(Occ(sel.val[1])) >= 2
       /\ ret.val = 1
       /\ abs(SetMin(Occ(sel.val[1])) - SetMin(Occ(sel.val[2]))) > 1

(* C2: with exactly one matching term that occurs at least twice in the     *)
(* chunk, find_distance returns the smallest gap between adjacent           *)
(* occurrences, which is the smallest index difference over all pairs of    *)
(* distinct occurrences, whatever the counts table holds.                   *)
C2_SingleTermMinimumGap ==
    (/\ op = "find_distance"
     /\ Cardinality(matching_terms) = 1
     /\ Cardinality(Occ(order[1])) >= 2)
    => /\ ret.kind = "return"
       /\ ret.val = SetMin(AdjacentGaps(order[1]))
       /\ ret.val = SetMin(PairGaps(order[1]))
       /\ \A c \in Dicts(Tokens, 1..MaxCount) :
             find_distance(order, chunk, c) = ret

\* the term is no key of counts, and the smallest gap is not the first one
C2_Witness ==
    /\ op = "find_distance" /\ ret.kind = "return"
    /\ Cardinality(matching_terms) = 1
    /\ order[1] \notin DOMAIN counts
    /\ Cardinality(Occ(order[1])) >= 3
    /\ LET first == SetMin(Occ(order[1])) IN
       ret.val < SetMin(Occ(order[1]) \ {first}) - first

(* C3: with two or more matching terms, all keys of counts, and any         *)
(* iteration order, _get_two_lowest returns two distinct matching terms     *)
(* (x, y) with counts[x] <= counts[y] <= counts[z] for every other matching *)
(* term z; when the counts are distinct it is the rarest term and the       *)
(* rarest of the others, whatever the iteration order.                      *)
C3_TwoLowestSelected ==
    (/\ op = "_get_two_lowest"
     /\ Cardinality(matching_terms) >= 2
     /\ matching_terms \subseteq DOMAIN counts)
    => /\ ret.kind = "return"
       /\ TwoSmallest(ret.val[1], ret.val[2])
       /\ DistinctCounts =>
             /\ ret.val[1] = Rarest(matching_terms)
             /\ ret.val[2] = Rarest(matching_terms \ {Rarest(matching_terms)})

\* distinct counts, and both returned terms come from the loop
C3_Witness ==
    /\ op = "_get_two_lowest" /\ ret.kind = "return"
    /\ Cardinality(matching_terms) = 4
    /\ matching_terms \subseteq DOMAIN counts
    /\ DistinctCounts
    /\ Place(ret.val[1]) > 2 /\ Place(ret.val[2]) > 2

(* C7: with exactly one matching term that occurs fewer than two times in   *)
(* the chunk, find_distance raises (ValueError, the minimum of no gaps) and *)
(* returns no distance.                                                     *)
C7_SingleTermTooFewOccurrences ==
    (/\ op = "find_distance"
     /\ Cardinality(matching_terms) = 1
     /\ Cardinality(Occ(order[1])) < 2)
    => ret = Raise("ValueError")

\* the term occurs exactly once, in a chunk of several tokens
C7_Witness ==
    /\ op = "find_distance"
    /\ Cardinality(matching_terms) = 1
    /\ Cardinality(Occ(order[1])) = 1
    /\ Len(chunk) >= 2
    /\ ret.kind = "ValueError"

(* C9: _get_two_lowest breaks ties by the iteration order: it returns first *)
(* the earliest of the terms with the smallest count, and second the        *)
(* earliest of the remaining terms with the smallest count among them.      *)
C9_EarlierTermWinsTies ==
    (/\ op = "_get_two_lowest"
     /\ Cardinality(matching_terms) >= 2
     /\ matching_terms \subseteq DOMAIN counts)
    => /\ ret.kind = "return"
       /\ ret.val[1] = EarliestRarest(matching_terms)
       /\ ret.val[2] = EarliestRarest(matching_terms \ {ret.val[1]})

\* a tie for the second slot between an early term and a later one, after a
\* later term took the first slot
C9_Witness ==
    /\ op = "_get_two_lowest" /\ ret.kind = "return"
    /\ Cardinality(matching_terms) = 4
    /\ matching_terms \subseteq DOMAIN counts
    /\ Place(ret.val[1]) >= 3
    /\ \E z \in matching_terms \ {ret.val[1], ret.val[2]} :
          counts[z] = counts[ret.val[2]]
    /\ counts[order[1]] = counts[order[2]]

(* C10: a distance that find_distance returns is an integer of at least 1.  *)
C10_DistanceAtLeastOne ==
    (op = "find_distance" /\ ret.kind = "return")
    => ret.val \in Nat /\ ret.val >= 1

\* both paths return: one matching term and several
C10_Witness ==
    /\ op = "find_distance" /\ ret.kind = "return"
    /\ Cardinality(matching_terms) >= 2
    /\ ret.val = 1
    /\ \E t \in matching_terms :
          single_term_distance(t, chunk) = Return(1)

(* C6: two calls of find_distance with the same matching_terms, chunk and   *)
(* counts return the same integer, also when the set is iterated in another *)
(* order in the second call.                                                *)
C6_Deterministic ==
    [][(/\ op = "find_distance" /\ ret.kind = "return"
        /\ op' = "find_distance" /\ ret'.kind = "return") => ret'.val = ret.val]_vars

(* What the claims about vanilla speak of. *)

\* the sum of all values of a counts table
Total(table) ==
    LET n(v) == Cardinality({k \in DOMAIN table : table[k] = v}) IN
    n(1) + SetSum({v * n(v) : v \in 2..(MaxCount + 1)})

\* every matching term has a positive count in both tables
PositiveCounts ==
    \A t \in matching_terms :
        /\ t \in DOMAIN source_counts /\ source_counts[t] > 0
        /\ t \in DOMAIN target_counts /\ target_counts[t] > 0

\* the product of the counts of the matching terms in both tables
RECURSIVE CountProduct(_)
CountProduct(S) ==
    IF S = {} THEN 1
    ELSE LET t == CHOOSE x \in S : TRUE IN
         source_counts[t] * target_counts[t] * CountProduct(S \ {t})

\* CountProduct times (the sum over the matching terms t of
\* total_target / target_counts[t] + total_source / source_counts[t])
RECURSIVE ScaledWeight(_, _)
ScaledWeight(S, P) ==
    IF S = {} THEN 0
    ELSE LET t == CHOOSE x \in S : TRUE IN
         Total(target_counts) * (P \div target_counts[t])
         + Total(source_counts) * (P \div source_counts[t])
         + ScaledWeight(S \ {t}, P)

(* C4: with matching terms, all with positive counts in both tables, and    *)
(* positive distances, vanilla returns ln(raw) with raw = (the sum over the *)
(* matching terms of total_target / target_counts[t] + the sum over them of *)
(* total_source / source_counts[t]) / (target_distance + source_distance),  *)
(* the totals taken over all keys of the tables.                            *)
C4_ScoreFormula ==
    (/\ op = "vanilla"
     /\ matching_terms # {}
     /\ PositiveCounts
     /\ source_distance > 0 /\ target_distance > 0)
    => /\ ret.kind = "return"
       /\ LET P == CountProduct(matching_terms)
              raw == ret.val.ln
          IN /\ raw[2] > 0
             /\ raw[1] * P * (target_distance + source_distance)
                = raw[2] * ScaledWeight(matching_terms, P)

\* two matching terms of different counts, a table with a term that does not
\* match, and different totals of the two tables
C4_Witness ==
    /\ op = "vanilla" /\ ret.kind = "return"
    /\ PositiveCounts
    /\ source_distance > 0 /\ target_distance > 0
    /\ \E t \in matching_terms, u \in DOMAIN target_counts \ matching_terms :
          /\ target_counts[u] > 0
          /\ target_counts[t] > 1
          /\ source_counts[t] # target_counts[t]
    /\ Total(source_counts) # Total(target_counts)
    /\ ret.val.ln[2] > 1

(* C8: with both distances 0, matching terms and positive counts, vanilla   *)
(* raises ZeroDivisionError and returns nothing.                            *)
C8_ZeroDistanceRaises ==
    (/\ op = "vanilla"
     /\ matching_terms # {}
     /\ PositiveCounts
     /\ source_distance = 0 /\ target_distance = 0)
    => ret = Raise("ZeroDivisionError")

C8_Witness ==
    /\ op = "vanilla"
    /\ Cardinality(matching_terms) = 2
    /\ PositiveCounts
    /\ source_distance = 0 /\ target_distance = 0
    /\ ret.kind = "ZeroDivisionError"

\* the high limb of 2^32
SmallSum == 2^4

====
